---- MODULE Spec2Model ----
(***************************************************************************)
(* A model of python-bitcoin-blockchain-parser (blockchain_parser/):       *)
(*   blockchain.py  get_blocks, get_block, Blockchain                      *)
(*   scanner.py     Scanner                                                *)
(*   utils.py       decode_varint                                          *)
(* The module holds one state machine per component; each specification    *)
(* runs one of them and leaves the variables of the others at their idle   *)
(* values:                                                                 *)
(*   SpecScan, SpecScanLive  get_blocks and get_block on one block file    *)
(*   SpecBuild               Blockchain.__init__ up to the store read      *)
(*   SpecPrune               the pruning loop of _build_block_index        *)
(*   SpecChain               get_ordered_blocks, get_block_by_height       *)
(*   SpecScanner             Scanner: block filtering and replay           *)
(*   SpecScannerTx           Scanner with filter_tx and the block list     *)
(*   SpecVarint              decode_varint and get_transaction             *)
(***************************************************************************)
EXTENDS Integers, Sequences, FiniteSets, TLC

VARIABLES
    \* ---- block file scanner (get_blocks / get_block) ----
    raw_data,       \* the bytes of the block file (the mmap of get_blocks)
    payloads,       \* ghost: the payloads the file was assembled from
    wellformed,     \* ghost: every record of the file was written with its true length
    scan_pc,        \* position of the get_blocks generator
    offset,         \* get_blocks: local offset
    block_count,    \* get_blocks: local block_count
    yielded,        \* records handed out by get_blocks so far, with their position P
    fetched,        \* the last get_block(file, P) made for a yielded record
    \* ---- the node's data directory, as the index-level code sees it ----
    disk,           \* the blocks stored in the blk files: [file, pos, hash, prev]
    \* ---- Blockchain._build_block_index, lines 184-210 ----
    sorted_index,   \* local blockIndexes after the sort of line 169
    prune_pc,       \* "idle", "loop" (the for of line 186) or "done" (returned)
    prune_i,        \* the loop's i (0-based, as in the code)
    last_height,    \* local last_height
    orphans,        \* local orphans: the hashes flagged so far
    confirm_calls,  \* ghost: the number of _index_confirmed calls made
    \* ---- Blockchain ----
    blockIndexes,   \* self.blockIndexes: the pruned, height-sorted index
    call,           \* the last read operation called on the Blockchain
    result,         \* what that call yielded or returned, and what it raised
    \* ---- Scanner ----
    blocks,         \* self.blocks: what the generator made in __init__ has yet to yield
    selected_blocks,\* self.selected_blocks: None, or Some(list of heights)
    it,             \* the iterate_blocks generator the consumer is pulling from
    prev_pass,      \* ghost: the pass made before it, as it ended
    cleared,        \* ghost: clear_block_filter was called since the last pass ended
    calls,          \* ghost: the number of calls the consumer has made on the wrapper
    \* ---- Blockchain.__init__ and the head of _build_block_index ----
    store,          \* the 'b' records of the block-index store, in key order
    cache_file,     \* the pickle at self.cache: None (no such file) or Some(list)
    ctor,           \* the constructor call: where it stands and what it has bound
    \* ---- Scanner: transaction filtering and the block list file ----
    selected_tx,    \* self.selected_tx: None, or Some(list of <<height, index>>)
    txit,           \* the filter_tx generator the consumer is pulling from
    list_file,      \* the file at list_path: None (no such file) or Some(bytes)
    list_note,      \* ghost: the selection last saved, and what the last load read
    \* ---- utils.decode_varint and Blockchain.get_transaction ----
    varint_in,      \* the bytes handed in, and (ghost) the values they encode
    vcall           \* the call made on them and what it returned or raised

scan_vars == <<raw_data, payloads, wellformed, scan_pc, offset, block_count,
               yielded, fetched>>

prune_vars == <<sorted_index, prune_pc, prune_i, last_height, orphans,
                confirm_calls>>

data_vars == <<disk, blockIndexes>>

chain_vars == <<call, result>>

scanner_vars == <<blocks, selected_blocks, it, prev_pass, cleared, calls>>

build_vars == <<store, cache_file, ctor>>

tx_vars == <<selected_tx, txit, list_file, list_note>>

varint_vars == <<varint_in, vcall>>

ext_vars == <<build_vars, tx_vars, varint_vars>>

vars == <<scan_vars, data_vars, prune_vars, chain_vars, scanner_vars, ext_vars>>

--------------------------------------------------------------------------
(* Generic helpers: Python sequence semantics.                             *)

Min(a, b) == IF a <= b THEN a ELSE b

Max(a, b) == IF a >= b THEN a ELSE b

\* Python's s[a:b] for ints a, b (0-based, b exclusive): a negative bound counts
\* from the end, and both bounds are clamped to 0..len(s).
PySlice(s, a, b) ==
    LET n  == Len(s)
        lo == IF a < 0 THEN Max(n + a, 0) ELSE Min(a, n)
        hi == IF b < 0 THEN Max(n + b, 0) ELSE Min(b, n)
    IN  IF lo >= hi THEN << >> ELSE SubSeq(s, lo + 1, hi)

\* reversed(s)
Reversed(s) == [k \in 1..Len(s) |-> s[Len(s) + 1 - k]]

RECURSIVE Flatten(_)
Flatten(ss) == IF ss = << >> THEN << >> ELSE Head(ss) \o Flatten(Tail(ss))

--------------------------------------------------------------------------
(* blockchain.py: the block file format.                                   *)

\* b"\xf9\xbe\xb4\xd9"
BITCOIN_CONSTANT == <<249, 190, 180, 217>>

\* struct.pack("<I", n): what the writer of a block file puts before a record
Pack32(n) == <<n % 256, (n \div 256) % 256, (n \div 65536) % 256,
               (n \div 16777216) % 256>>

\* struct.unpack("<I", bs)[0] of exactly 4 bytes
Unpack32(bs) == bs[1] + 256 * bs[2] + 65536 * bs[3] + 16777216 * bs[4]

\* f.seek(pos); f.read(n) on a file holding data: at most n bytes, fewer at the end
FileRead(data, pos, n) == PySlice(data, pos, pos + n)

\* a get_block that does not step over the length field: it reads the size at
\* offset - 4 and then the record from there, length bytes first
get_block_shifted(data, off) ==
    IF off - 4 < 0 THEN [ok |-> FALSE, data |-> << >>]
    ELSE LET hdr == FileRead(data, off - 4, 4)
         IN  IF Len(hdr) # 4 THEN [ok |-> FALSE, data |-> << >>]
             ELSE [ok |-> TRUE, data |-> FileRead(data, off - 4, Unpack32(hdr))]

\* get_block(blockfile, offset): [ok |-> FALSE] stands for the exception raised when
\* the seek position is negative (OSError) or fewer than 4 length bytes are read
\* (struct.error)
get_block(data, off) ==
    IF off - 4 < 0 THEN [ok |-> FALSE, data |-> << >>]
    ELSE LET hdr == FileRead(data, off - 4, 4)
         IN  IF Len(hdr) # 4 THEN [ok |-> FALSE, data |-> << >>]
             ELSE [ok |-> TRUE, data |-> FileRead(data, off, Unpack32(hdr))]

--------------------------------------------------------------------------
(* The block files the scanner is run on.                                  *)

\* the most records a file is assembled from
MaxRecords == 2

\* the most bytes cut off the end of a file (a truncated last record)
MaxCut == 1

\* padding between records: none, or the first three bytes of the marker;
\* neither holds the whole marker
PadSet == { << >>, <<249, 190, 180>> }

\* record payloads: empty, one byte, and one that holds the marker followed by
\* a zero length field (a whole empty record inside the payload)
BodySet == { << >>, <<7>>, BITCOIN_CONSTANT \o <<0, 0, 0, 0>> }

\* what the length field says beyond the true length of the payload
DeltaSet == {0, 2, 256}

RecordShape == [pad : PadSet, body : BodySet, delta : DeltaSet]

RecordBytes(r) ==
    r.pad \o BITCOIN_CONSTANT \o Pack32(Len(r.body) + r.delta) \o r.body

Layouts == UNION { [1..n -> RecordShape] : n \in 0..MaxRecords }

FileBytes(recs, tail, cut) ==
    LET all == Flatten([k \in 1..Len(recs) |-> RecordBytes(recs[k])]) \o tail
    IN  SubSeq(all, 1, Len(all) - Min(cut, Len(all)))

IdleScan ==
    /\ raw_data = << >>
    /\ payloads = << >>
    /\ wellformed = TRUE
    /\ scan_pc = "idle"
    /\ offset = 0
    /\ block_count = 0
    /\ yielded = << >>
    /\ fetched = [pos |-> -1, res |-> [ok |-> FALSE, data |-> << >>]]

IdleData ==
    /\ disk = {}
    /\ blockIndexes = << >>

IdleChain ==
    /\ call = [op |-> "none"]
    /\ result = [blocks |-> << >>, raised |-> "none"]

NoPass == [pc |-> "idle", mode |-> "none", flt |-> "all", todo |-> << >>,
           out |-> << >>, calls |-> 0, end |-> "none", gap |-> FALSE]

IdleScanner ==
    /\ blocks = << >>
    /\ selected_blocks = << >>
    /\ it = NoPass
    /\ prev_pass = NoPass
    /\ cleared = FALSE
    /\ calls = 0

IdlePrune ==
    /\ sorted_index = << >>
    /\ prune_pc = "idle"
    /\ prune_i = 0
    /\ last_height = -1
    /\ orphans = << >>
    /\ confirm_calls = 0

\* no constructor call is being followed
NoCtor == [pc |-> "idle", cache |-> << >>, attrs |-> {}, self_index |-> << >>,
           local |-> << >>, raised |-> "none"]

IdleBuild ==
    /\ store = << >>
    /\ cache_file = << >>
    /\ ctor = NoCtor

\* no filter_tx generator
NoTxPass == [pc |-> "idle", flt |-> "all", cur |-> << >>, i |-> 0, out |-> << >>,
             tested |-> << >>, sel0 |-> << >>, rest0 |-> << >>, end |-> "none",
             at |-> 0]

NoNote == [written |-> << >>, loaded |-> << >>, raised |-> "none", at |-> 0]

IdleTx ==
    /\ selected_tx = << >>
    /\ txit = NoTxPass
    /\ list_file = << >>
    /\ list_note = NoNote

NoVarintCall == [op |-> "none", value |-> 0, length |-> 0, fileNo |-> 0,
                 blockOffs |-> 0, txOffs |-> << >>, raised |-> "none"]

IdleVarint ==
    /\ varint_in = [bytes |-> << >>, vals |-> << >>, trail |-> << >>, cut |-> 0]
    /\ vcall = NoVarintCall

IdleExt == IdleBuild /\ IdleTx /\ IdleVarint

InitScan ==
    \E recs \in Layouts, tail \in PadSet, cut \in 0..MaxCut :
        /\ raw_data = FileBytes(recs, tail, cut)
        /\ payloads = [k \in 1..Len(recs) |-> recs[k].body]
        /\ wellformed = (cut = 0 /\ \A k \in 1..Len(recs) : recs[k].delta = 0)
        /\ scan_pc = "open"
        /\ offset = 0
        /\ block_count = 0
        /\ yielded = << >>
        /\ fetched = [pos |-> -1, res |-> [ok |-> FALSE, data |-> << >>]]
        /\ IdleData /\ IdlePrune /\ IdleChain /\ IdleScanner /\ IdleExt

--------------------------------------------------------------------------
(* blockchain.py: get_blocks, one action per step of the generator.        *)

\* lines 47-56: the file is mapped; mmap refuses an empty file (ValueError)
get_blocks_open ==
    /\ scan_pc = "open"
    /\ scan_pc' = IF Len(raw_data) = 0 THEN "error" ELSE "loop"
    /\ offset' = 0
    /\ block_count' = 0
    /\ UNCHANGED <<raw_data, payloads, wellformed, yielded, fetched>>
    /\ UNCHANGED <<data_vars, prune_vars, chain_vars, scanner_vars, ext_vars>>

\* a scanner that compares only the first three bytes of the marker
AtMarkerPrefix == PySlice(raw_data, offset, offset + 3) = SubSeq(BITCOIN_CONSTANT, 1, 3)

\* line 58: raw_data[offset:offset+4] == BITCOIN_CONSTANT
AtMarker == PySlice(raw_data, offset, offset + 4) = BITCOIN_CONSTANT

\* a scanner that stays where it is when it finds no marker
get_blocks_stall ==
    /\ scan_pc = "loop"
    /\ offset < Len(raw_data) - 4
    /\ ~AtMarker
    /\ UNCHANGED vars

\* lines 57-58, 64-65: no marker at offset
get_blocks_skip ==
    /\ scan_pc = "loop"
    /\ offset < Len(raw_data) - 4
    /\ ~AtMarker
    /\ offset' = offset + 1
    /\ UNCHANGED <<raw_data, payloads, wellformed, scan_pc, block_count,
                   yielded, fetched>>
    /\ UNCHANGED <<data_vars, prune_vars, chain_vars, scanner_vars, ext_vars>>

\* lines 57-63: a marker at offset; the record that follows is yielded
get_blocks_yield ==
    /\ scan_pc = "loop"
    /\ offset < Len(raw_data) - 4
    /\ AtMarker
    /\ LET hdr == PySlice(raw_data, offset + 4, offset + 8)
       IN  /\ Len(hdr) = 4
           /\ LET size == Unpack32(hdr)
                  off2 == offset + 8 + size
              IN  /\ offset' = off2
                  /\ block_count' = block_count + 1
                  /\ yielded' = Append(yielded,
                                   [data |-> PySlice(raw_data, off2 - size, off2),
                                    pos |-> off2 - size,
                                    size |-> size,
                                    at |-> offset])
    /\ UNCHANGED <<raw_data, payloads, wellformed, scan_pc, fetched>>
    /\ UNCHANGED <<data_vars, prune_vars, chain_vars, scanner_vars, ext_vars>>

\* lines 59-60: fewer than 4 bytes follow the marker; struct.unpack raises
get_blocks_short_header ==
    /\ scan_pc = "loop"
    /\ offset < Len(raw_data) - 4
    /\ AtMarker
    /\ Len(PySlice(raw_data, offset + 4, offset + 8)) < 4
    /\ scan_pc' = "error"
    /\ offset' = offset + 4
    /\ UNCHANGED <<raw_data, payloads, wellformed, block_count, yielded, fetched>>
    /\ UNCHANGED <<data_vars, prune_vars, chain_vars, scanner_vars, ext_vars>>

\* lines 57, 66: fewer than 5 bytes remain; the generator ends
get_blocks_close ==
    /\ scan_pc = "loop"
    /\ ~(offset < Len(raw_data) - 4)
    /\ scan_pc' = "done"
    /\ UNCHANGED <<raw_data, payloads, wellformed, offset, block_count,
                   yielded, fetched>>
    /\ UNCHANGED <<data_vars, prune_vars, chain_vars, scanner_vars, ext_vars>>

\* a caller fetches the record just yielded by its position: get_block(file, P)
fetch_yielded ==
    /\ yielded # << >>
    /\ LET P == yielded[Len(yielded)].pos
       IN  /\ fetched.pos # P
           /\ fetched' = [pos |-> P, res |-> get_block(raw_data, P)]
    /\ UNCHANGED <<raw_data, payloads, wellformed, scan_pc, offset, block_count,
                   yielded>>
    /\ UNCHANGED <<data_vars, prune_vars, chain_vars, scanner_vars, ext_vars>>

NextScan ==
    \/ get_blocks_open
    \/ get_blocks_skip
    \/ get_blocks_yield
    \/ get_blocks_short_header
    \/ get_blocks_close
    \/ fetch_yielded

SpecScan == InitScan /\ [][NextScan]_vars

\* get_blocks consumed to its end: the consumer goes on calling next(), so
\* a step of the generator that can be taken is taken
get_blocks_step ==
    \/ get_blocks_open
    \/ get_blocks_skip
    \/ get_blocks_yield
    \/ get_blocks_short_header
    \/ get_blocks_close

\* the files of the runs followed to their end: records with a true length
\* or with one far beyond the file
LiveLayouts ==
    UNION { [1..n -> { r \in RecordShape : r.delta # 2 }] : n \in 0..MaxRecords }

InitScanLive ==
    \E recs \in LiveLayouts, tail \in PadSet, cut \in 0..MaxCut :
        /\ raw_data = FileBytes(recs, tail, cut)
        /\ payloads = [k \in 1..Len(recs) |-> recs[k].body]
        /\ wellformed = (cut = 0 /\ \A k \in 1..Len(recs) : recs[k].delta = 0)
        /\ scan_pc = "open"
        /\ offset = 0
        /\ block_count = 0
        /\ yielded = << >>
        /\ fetched = [pos |-> -1, res |-> [ok |-> FALSE, data |-> << >>]]
        /\ IdleData /\ IdlePrune /\ IdleChain /\ IdleScanner /\ IdleExt

SpecScanLive == InitScanLive /\ [][NextScan]_vars /\ WF_vars(get_blocks_step)

YieldedData == [k \in 1..Len(yielded) |-> yielded[k].data]

ScanEnded == scan_pc \in {"done", "error"}

C2_FetchEqualsScan ==
    \A k \in 1..Len(yielded) :
        yielded[k].pos = fetched.pos =>
            /\ fetched.res.ok
            /\ fetched.res.data = yielded[k].data

\* C2 witness: a fetched record that is not empty, and one that the end of the
\* file cuts short
C2_Witness ==
    \E k \in 1..Len(yielded) :
        /\ yielded[k].pos = fetched.pos
        /\ fetched.res.ok
        /\ fetched.res.data # << >>
        /\ Len(yielded[k].data) < yielded[k].size

\* C17: every record get_blocks yields has exactly the number of bytes its
\* length field declares; a marker whose declared length runs past the end
\* of the file yields no record.
C17_YieldedWithinFile ==
    \A k \in 1..Len(yielded) :
        /\ Len(yielded[k].data) = yielded[k].size
        /\ yielded[k].pos + yielded[k].size <= Len(raw_data)

\* what the code does instead: the record is whatever the file holds from
\* the end of the length field up to the declared length, cut at the end of
\* the file; the length is not compared with the size of the file
C17_YieldedCutAtEnd ==
    \A k \in 1..Len(yielded) :
        yielded[k].data = SubSeq(raw_data, yielded[k].pos + 1,
                                 Min(yielded[k].pos + yielded[k].size, Len(raw_data)))

\* C20: get_blocks consumed to its end terminates on every file; while the
\* loop runs the offset moves on by 1 (no marker) or by at least 8 (a
\* marker); the records yielded start at strictly increasing positions and
\* do not overlap.
C20_ScanTerminates ==
    /\ <>ScanEnded
    /\ [][scan_pc = "loop" /\ scan_pc' = "loop" /\ fetched' = fetched =>
            IF AtMarker THEN offset' >= offset + 8 /\ Len(yielded') = Len(yielded) + 1
            ELSE offset' = offset + 1 /\ yielded' = yielded]_vars
    /\ [](\A k \in 1..(Len(yielded) - 1) :
            /\ yielded[k].pos < yielded[k + 1].pos
            /\ yielded[k].pos + Len(yielded[k].data) <= yielded[k + 1].at)

\* C20 witness: a scan that has ended after yielding two records from a
\* file that is not well-formed
C20_Witness ==
    /\ scan_pc = "done"
    /\ ~wellformed
    /\ Len(yielded) = 2
    /\ offset > Len(raw_data)

--------------------------------------------------------------------------
(* The node's block index store and blk files, as Blockchain sees them.    *)
(* An index entry is [hash, height, file, data_pos] (DBBlockIndex); a      *)
(* stored block is [file, pos, hash, prev]: the block whose bytes          *)
(* get_block(blk<file>.dat, pos) returns, with the hash of its header and  *)
(* the previous-block hash its header names.                               *)

\* the confirmation threshold: _index_confirmed's num_confirmations=6
num_confirmations == 6

\* the longest main chain a store holds (heights 0..MaxChain-1)
MaxChain == 8

\* hashes: 0 is the null hash before the genesis block, 10+h the main chain's
\* block of height h, 31 and 32 two stale blocks
MainHash(h) == 10 + h

PrevOfHeight(h) == IF h = 0 THEN 0 ELSE MainHash(h - 1)

StaleHash(name) == IF name = "S" THEN 31 ELSE 32

\* where a block's data is: on disk, known with a file but no data position
\* (undo data only), or not stored at all
LocSet == {"disk", "nodata", "none"}

Entry(hash, height, loc) ==
    [hash |-> hash, height |-> height,
     file |-> IF loc = "none" THEN -1 ELSE hash % 2,
     data_pos |-> IF loc = "disk" THEN 8 + hash ELSE -1]

Stored(hash, prev) ==
    [file |-> hash % 2, pos |-> 8 + hash, hash |-> hash, prev |-> prev]

\* the orders in which the main block M and the stale blocks S, T of one
\* height can follow each other in the height-sorted index
GroupSet ==
    { <<"M">>,
      <<"M", "S">>, <<"S", "M">>, <<"M", "T">>, <<"T", "M">>,
      <<"M", "S", "T">>, <<"M", "T", "S">>, <<"S", "M", "T">>,
      <<"T", "M", "S">>, <<"S", "T", "M">>, <<"T", "S", "M">> }

\* a store: a main chain of n blocks of which the first d have their data on
\* disk, and the stale blocks of group at height f, stored as sloc says
StoreIndex(n, d, f, group, sloc) ==
    LET main(h) == Entry(MainHash(h), h, IF h < d THEN "disk" ELSE "none")
        member(x) == IF x = "M" THEN main(f)
                     ELSE Entry(StaleHash(x), f, sloc[x])
        at(h) == IF h = f THEN [k \in 1..Len(group) |-> member(group[k])]
                 ELSE <<main(h)>>
    IN  Flatten([k \in 1..n |-> at(k - 1)])

StoreDisk(n, d, f, group, sloc) ==
    { Stored(MainHash(h), PrevOfHeight(h)) : h \in 0..(Min(n, d) - 1) }
    \cup { Stored(StaleHash(x), PrevOfHeight(f)) :
             x \in { y \in {"S", "T"} : (\E k \in 1..Len(group) : group[k] = y)
                                        /\ sloc[y] = "disk" } }

\* the stores: any main chain of up to MaxChain blocks with a prefix of it on
\* disk, without stale blocks or with one or two of them at a height f >= 1
\* (sloc of a stale block that is not in the group is kept at one value)
StoreParams ==
    { q \in [n : 0..MaxChain, d : 0..MaxChain, f : 0..(MaxChain - 1),
             group : GroupSet, sloc : [{"S", "T"} -> LocSet]] :
        /\ q.d <= q.n
        /\ IF Len(q.group) = 1 THEN q.f = 0 ELSE q.f >= 1 /\ q.f < q.n
        /\ \A x \in {"S", "T"} :
              (\A k \in 1..Len(q.group) : q.group[k] # x) => q.sloc[x] = "none" }

--------------------------------------------------------------------------
(* blockchain.py: Blockchain._index_confirmed and the pruning loop of      *)
(* Blockchain._build_block_index.                                          *)

\* index.file == -1 or index.data_pos == -1
NotOnDisk(e) == e.file = -1 \/ e.data_pos = -1

\* get_block(blkFile, index.data_pos) at the level of whole blocks
StoredBlock(dsk, e) == CHOOSE b \in dsk : b.file = e.file /\ b.pos = e.data_pos

\* Block(raw, height, parent): the decoded block, with the hash of its header,
\* the previous-block hash of its header and the height it was given
Block(raw, height) == [hash |-> raw.hash, prev |-> raw.prev, height |-> height]

Range(s) == { s[k] : k \in 1..Len(s) }

\* a decision that does not look whether the 6-chain holds the first block
ChainDecisionAny(chain, first_hash) == "True"

\* lines 137-140
ChainDecision(chain, first_hash) ==
    IF first_hash \in Range(chain) THEN "True" ELSE "False"

\* lines 127-140: the for over chains, from chain k on, for one block
RECURSIVE ScanChains(_, _, _, _)
ScanChains(chains, k, block, first_hash) ==
    IF k > Len(chains) THEN [decided |-> FALSE, value |-> "None", chains |-> chains]
    ELSE LET c  == chains[k]
             c2 == IF c[Len(c)] = block.prev THEN Append(c, block.hash) ELSE c
         IN  IF Len(c2) = num_confirmations
             THEN [decided |-> TRUE, value |-> ChainDecision(c2, first_hash),
                   chains |-> chains]
             ELSE ScanChains([chains EXCEPT ![k] = c2], k + 1, block, first_hash)

\* lines 113-140: the for over chain_indexes, from entry i (1-based) on
RECURSIVE ConfirmFrom(_, _, _, _, _)
ConfirmFrom(dsk, chain_indexes, i, chains, first_hash) ==
    IF i > Len(chain_indexes) THEN "None"
    ELSE LET index == chain_indexes[i]
         IN  IF NotOnDisk(index) THEN "False"
             ELSE LET block == Block(StoredBlock(dsk, index), -1)
                      first == IF i = 1 THEN block.hash ELSE first_hash
                      r == ScanChains(Append(chains, <<block.hash>>), 1, block, first)
                  IN  IF r.decided THEN r.value
                      ELSE ConfirmFrom(dsk, chain_indexes, i + 1, r.chains, first)

\* _index_confirmed(chain_indexes): "True", "False", or "None" when the loop
\* runs out of entries and the function falls off its end
index_confirmed(dsk, chain_indexes) == ConfirmFrom(dsk, chain_indexes, 1, << >>, 0)

\* the truth value an if gives the result
Truthy(r) == r = "True"

\* a loop that also takes a greater height for a repeated one
SameHeightOrLater(height, last) == last > -1 /\ height >= last

\* lines 187, 190: last_height > -1 and blockIdx.height == last_height
SameHeight(height, last) == last > -1 /\ height = last

\* lines 186-205: the orphans after the loop body has run for i (0-based)
OrphansAfter(dsk, idx, i, last, orph) ==
    IF SameHeight(idx[i + 1].height, last)
    THEN IF Truthy(index_confirmed(dsk, SubSeq(idx, i + 1, Len(idx))))
         THEN Append(orph, idx[i].hash)
         ELSE Append(orph, idx[i + 1].hash)
    ELSE orph

\* line 210: list(filter(lambda block: block.hash not in orphans, blockIndexes))
FilterOrphans(idx, orph) == SelectSeq(idx, LAMBDA e : e.hash \notin Range(orph))

InitPrune ==
    \E q \in StoreParams :
        /\ sorted_index = StoreIndex(q.n, q.d, q.f, q.group, q.sloc)
        /\ disk = StoreDisk(q.n, q.d, q.f, q.group, q.sloc)
        /\ blockIndexes = << >>
        /\ prune_pc = "loop"
        /\ prune_i = 0
        /\ last_height = -1
        /\ orphans = << >>
        /\ confirm_calls = 0
        /\ IdleScan /\ IdleChain /\ IdleScanner /\ IdleExt

\* lines 186-205, an entry whose height differs from the last one's
prune_next ==
    /\ prune_pc = "loop"
    /\ prune_i < Len(sorted_index)
    /\ ~SameHeight(sorted_index[prune_i + 1].height, last_height)
    /\ last_height' = sorted_index[prune_i + 1].height
    /\ prune_i' = prune_i + 1
    /\ UNCHANGED <<sorted_index, prune_pc, orphans, confirm_calls>>
    /\ UNCHANGED <<scan_vars, data_vars, chain_vars, scanner_vars, ext_vars>>

\* lines 186-205, an entry of the same height as the last: _index_confirmed is
\* called and one of the two entries is flagged
prune_duplicate ==
    /\ prune_pc = "loop"
    /\ prune_i < Len(sorted_index)
    /\ SameHeight(sorted_index[prune_i + 1].height, last_height)
    /\ orphans' = OrphansAfter(disk, sorted_index, prune_i, last_height, orphans)
    /\ confirm_calls' = confirm_calls + 1
    /\ last_height' = sorted_index[prune_i + 1].height
    /\ prune_i' = prune_i + 1
    /\ UNCHANGED <<sorted_index, prune_pc>>
    /\ UNCHANGED <<scan_vars, data_vars, chain_vars, scanner_vars, ext_vars>>

\* line 210 and line 86: the filtered list is returned and becomes
\* self.blockIndexes
prune_return ==
    /\ prune_pc = "loop"
    /\ prune_i = Len(sorted_index)
    /\ prune_pc' = "done"
    /\ blockIndexes' = FilterOrphans(sorted_index, orphans)
    /\ UNCHANGED <<sorted_index, prune_i, last_height, orphans, confirm_calls, disk>>
    /\ UNCHANGED <<scan_vars, chain_vars, scanner_vars, ext_vars>>

NextPrune ==
    \/ prune_next
    \/ prune_duplicate
    \/ prune_return

SpecPrune == InitPrune /\ [][NextPrune]_vars

\* lines 184-205 as a whole: the orphans the loop has flagged when it ends,
\* started at i with last_height = last and orphans = orph
RECURSIVE OrphansFrom(_, _, _, _, _)
OrphansFrom(dsk, idx, i, last, orph) ==
    IF i >= Len(idx) THEN orph
    ELSE OrphansFrom(dsk, idx, i + 1, idx[i + 1].height,
                     OrphansAfter(dsk, idx, i, last, orph))

\* lines 184-210: the index _build_block_index returns for a sorted store
PrunedIndex(dsk, idx) == FilterOrphans(idx, OrphansFrom(dsk, idx, 0, -1, << >>))

--------------------------------------------------------------------------
(* blockchain.py: the read operations of Blockchain.                       *)

\* an optional argument: << >> is None, <<v>> the value v
None == << >>

Some(v) == <<v>>

\* Block(get_block(blkFile, blkIdx.data_pos), blkIdx.height, self)
BlockOf(dsk, e) == Block(StoredBlock(dsk, e), e.height)

\* an iteration that passes over an entry that is not on disk and goes on
RECURSIVE YieldSkippingMissing(_, _)
YieldSkippingMissing(dsk, es) ==
    IF es = << >> THEN << >>
    ELSE IF NotOnDisk(Head(es)) THEN YieldSkippingMissing(dsk, Tail(es))
    ELSE <<Block(StoredBlock(dsk, Head(es)), Head(es).height)>>
         \o YieldSkippingMissing(dsk, Tail(es))

\* lines 237-241: the blocks of the entries of a slice up to the first entry
\* that is not on disk
RECURSIVE YieldUntilMissing(_, _)
YieldUntilMissing(dsk, es) ==
    IF es = << >> \/ NotOnDisk(Head(es)) THEN << >>
    ELSE <<BlockOf(dsk, Head(es))>> \o YieldUntilMissing(dsk, Tail(es))

\* lines 234-235
MirroredBounds(n, start, end) == [start |-> n - start, end |-> n - end]

\* get_ordered_blocks(start, end), consumed to its end: the blocks it yields
get_ordered_blocks(dsk, idx, start, end) ==
    LET end1 == IF end = None THEN Len(idx) ELSE end[1]
        rev  == end1 < start
        bi   == IF rev THEN Reversed(idx) ELSE idx
        b    == IF rev THEN MirroredBounds(Len(bi), start, end1)
                ELSE [start |-> start, end |-> end1]
    IN  YieldUntilMissing(dsk, PySlice(bi, b.start, b.end))

\* blockIndexes[height]: Python's index, negative from the end; 0 when out of
\* range (IndexError), else the 1-based position
PyIndex(n, k) ==
    IF k >= 0 THEN (IF k < n THEN k + 1 ELSE 0)
    ELSE (IF n + k >= 0 THEN n + k + 1 ELSE 0)

\* a lookup that searches the entry whose height field is the one asked for
get_block_by_height_field(dsk, idx, height) ==
    IF \E k \in 1..Len(idx) : idx[k].height = height
    THEN LET blk == idx[CHOOSE k \in 1..Len(idx) : idx[k].height = height]
         IN  IF NotOnDisk(blk) THEN [blocks |-> << >>, raised |-> "ValueError"]
             ELSE [blocks |-> <<BlockOf(dsk, blk)>>, raised |-> "none"]
    ELSE [blocks |-> << >>, raised |-> "IndexError"]

\* get_block_by_height(height): the block returned, or the exception raised
get_block_by_height(dsk, idx, height) ==
    LET k == PyIndex(Len(idx), height)
    IN  IF k = 0 THEN [blocks |-> << >>, raised |-> "IndexError"]
        ELSE IF NotOnDisk(idx[k]) THEN [blocks |-> << >>, raised |-> "ValueError"]
        ELSE [blocks |-> <<BlockOf(dsk, idx[k])>>, raised |-> "none"]

\* the Blockchain objects: the index is the pruned index of a store
InitChain ==
    \E q \in StoreParams :
        /\ disk = StoreDisk(q.n, q.d, q.f, q.group, q.sloc)
        /\ blockIndexes = PrunedIndex(disk, StoreIndex(q.n, q.d, q.f, q.group, q.sloc))
        /\ IdleChain /\ IdleScan /\ IdlePrune /\ IdleScanner /\ IdleExt

\* the arguments a caller passes: positions up to one past the end, and beyond
ArgSet == 0..(Len(blockIndexes) + 2)

\* list(get_ordered_blocks(start)) and list(get_ordered_blocks(start, end))
call_get_ordered_blocks ==
    /\ call.op = "none"
    /\ \E start \in ArgSet, end \in {None} \cup { Some(v) : v \in ArgSet } :
          /\ call' = [op |-> "get_ordered_blocks", start |-> start, end |-> end]
          /\ result' = [blocks |-> get_ordered_blocks(disk, blockIndexes, start, end),
                        raised |-> "none"]
    /\ UNCHANGED <<scan_vars, data_vars, prune_vars, scanner_vars, ext_vars>>

\* get_block_by_height(height)
call_get_block_by_height ==
    /\ call.op = "none"
    /\ \E height \in (0 - Len(blockIndexes) - 1)..(Len(blockIndexes) + 1) :
          /\ call' = [op |-> "get_block_by_height", start |-> height, end |-> None]
          /\ result' = get_block_by_height(disk, blockIndexes, height)
    /\ UNCHANGED <<scan_vars, data_vars, prune_vars, scanner_vars, ext_vars>>

\* the caller is done with the result and may call again
call_return ==
    /\ call.op # "none"
    /\ call' = [op |-> "none"]
    /\ result' = [blocks |-> << >>, raised |-> "none"]
    /\ UNCHANGED <<scan_vars, data_vars, prune_vars, scanner_vars, ext_vars>>

NextChain ==
    \/ call_get_ordered_blocks
    \/ call_get_block_by_height
    \/ call_return

SpecChain == InitChain /\ [][NextChain]_vars

--------------------------------------------------------------------------
(* scanner.py: Scanner. The consumer pulls from one iterate_blocks          *)
(* generator at a time and calls the other methods between two passes.     *)
(* A pass is [pc, mode, flt, todo, out, calls, end, gap]: where the         *)
(* generator stands ("created", "running", "ended"), whether it filters or *)
(* replays, its predicate, the heights it has yet to replay, the blocks it *)
(* has yielded and the predicate calls it has made, how it ended, and      *)
(* whether clear_block_filter was called between the pass before and it.   *)

\* the longest main chain of the stores a Scanner is built on, beside ForkStore
MaxScanChain == 3

\* the most calls a consumer makes on one wrapper (next() on a generator is
\* not counted)
MaxCalls == 3

\* a store with three blocks at height 1, the last of them confirmed
ForkStore ==
    [n |-> num_confirmations + 1, d |-> num_confirmations + 1, f |-> 1,
     group |-> <<"S", "T", "M">>, sloc |-> [x \in {"S", "T"} |-> "disk"]]

ScannerStores == { q \in StoreParams : q.n <= MaxScanChain } \cup {ForkStore}

\* the predicates a caller filters with: lambda x: True (the default), and the
\* blocks of odd height
FltSet == {"all", "odd"}

\* flt(block)
FltHolds(flt, block) == flt = "all" \/ block.height % 2 = 1

\* lines 14-18: the wrapper as __init__ leaves it, over a Blockchain whose
\* index is built
InitScanner ==
    \E q \in ScannerStores :
        /\ disk = StoreDisk(q.n, q.d, q.f, q.group, q.sloc)
        /\ blockIndexes = PrunedIndex(disk, StoreIndex(q.n, q.d, q.f, q.group, q.sloc))
        /\ blocks = get_ordered_blocks(disk, blockIndexes, 0, None)
        /\ selected_blocks = None
        /\ it = NoPass
        /\ prev_pass = NoPass
        /\ cleared = FALSE
        /\ calls = 0
        /\ IdleScan /\ IdlePrune /\ IdleChain /\ IdleExt

\* the position in bs of the first block flt holds of, 0 when there is none
FirstMatch(bs, flt) ==
    LET M == { k \in 1..Len(bs) : FltHolds(flt, bs[k]) }
    IN  IF M = {} THEN 0 ELSE CHOOSE k \in M : \A j \in M : k <= j

\* iterate_blocks(flt) is called: a generator is made, none of its code runs
iterate_blocks ==
    /\ it.pc \in {"idle", "ended"}
    /\ txit.pc \in {"idle", "ended"}
    /\ calls < MaxCalls
    /\ calls' = calls + 1
    /\ \E flt \in FltSet :
          it' = [NoPass EXCEPT !.pc = "created", !.flt = flt, !.gap = cleared]
    /\ prev_pass' = it
    /\ cleared' = FALSE
    /\ UNCHANGED <<blocks, selected_blocks>>
    /\ UNCHANGED <<scan_vars, data_vars, prune_vars, chain_vars, ext_vars>>

\* line 56, first next(): the mode the generator takes
ModeOf(sel) == IF sel = None THEN "filter" ELSE "replay"

\* lines 44-50, one next() of a filtering pass p on selection sel (already
\* reset by line 44 if this is the first next()) with bs left of self.blocks,
\* the one generator made in __init__: the generator runs to its next yield
\* or to the end of bs
FilterStep(p, bs, sel) ==
    LET k == FirstMatch(bs, p.flt)
    IN  IF k = 0
        THEN [blocks |-> << >>,
              sel |-> sel,
              it |-> [p EXCEPT !.pc = "ended", !.end = "exhausted",
                               !.calls = p.calls + Len(bs)]]
        ELSE [blocks |-> SubSeq(bs, k + 1, Len(bs)),
              sel |-> Some(Append(sel[1], bs[k].height)),
              it |-> [p EXCEPT !.pc = "running", !.calls = p.calls + k,
                               !.out = Append(p.out, bs[k])]]

FilterNext(p, sel) ==
    LET r == FilterStep(p, blocks, sel)
    IN  /\ blocks' = r.blocks
        /\ selected_blocks' = r.sel
        /\ it' = r.it

\* lines 60-61, one next() of a replaying pass p
ReplayStep(p) ==
    IF p.todo = << >>
    THEN [p EXCEPT !.pc = "ended", !.end = "exhausted"]
    ELSE LET r == get_block_by_height(disk, blockIndexes, Head(p.todo))
         IN  IF r.raised # "none"
             THEN [p EXCEPT !.pc = "ended", !.end = r.raised]
             ELSE [p EXCEPT !.pc = "running", !.todo = Tail(p.todo),
                            !.out = Append(p.out, r.blocks[1])]

ReplayNext(p) ==
    /\ UNCHANGED <<blocks, selected_blocks>>
    /\ it' = ReplayStep(p)

\* next() on the generator, lines 56-61 (and 44-50 through filter_blocks)
iterate_blocks_next ==
    /\ it.pc \in {"created", "running"}
    /\ txit.pc \in {"idle", "ended"}
    /\ IF it.pc = "created"
       THEN IF ModeOf(selected_blocks) = "filter"
            THEN FilterNext([it EXCEPT !.mode = "filter"], Some(<< >>))
            ELSE ReplayNext([it EXCEPT !.mode = "replay", !.todo = selected_blocks[1]])
       ELSE IF it.mode = "filter"
            THEN FilterNext(it, selected_blocks)
            ELSE ReplayNext(it)
    /\ UNCHANGED <<prev_pass, cleared, calls>>
    /\ UNCHANGED <<scan_vars, data_vars, prune_vars, chain_vars, ext_vars>>

\* the consumer stops pulling from the generator after a yield
iterate_blocks_abandon ==
    /\ it.pc = "running"
    /\ txit.pc \in {"idle", "ended"}
    /\ it' = [it EXCEPT !.pc = "ended", !.end = "abandoned"]
    /\ UNCHANGED <<blocks, selected_blocks, prev_pass, cleared, calls>>
    /\ UNCHANGED <<scan_vars, data_vars, prune_vars, chain_vars, ext_vars>>

\* lines 63-64
clear_block_filter ==
    /\ it.pc \in {"idle", "ended"}
    /\ txit.pc \in {"idle", "ended"}
    /\ calls < MaxCalls
    /\ calls' = calls + 1
    /\ selected_blocks' = None
    /\ cleared' = TRUE
    /\ UNCHANGED <<blocks, it, prev_pass>>
    /\ UNCHANGED <<scan_vars, data_vars, prune_vars, chain_vars, ext_vars>>

NextScanner ==
    \/ iterate_blocks
    \/ iterate_blocks_next
    \/ iterate_blocks_abandon
    \/ clear_block_filter

SpecScanner == InitScanner /\ [][NextScanner]_vars

--------------------------------------------------------------------------
(* scanner.py: the block list file of save_block_list / load_block_list.  *)
(* A file is a sequence of character codes.                                *)

\* a writer that keeps only the last digit of a number
LastDigit(n) == <<48 + (n % 10)>>

\* str(n) of an int n >= 0
RECURSIVE DecimalDigits(_)
DecimalDigits(n) ==
    IF n < 10 THEN <<48 + n>>
    ELSE DecimalDigits(n \div 10) \o <<48 + (n % 10)>>

\* listwriter.writerow([n]): the field and csv's line terminator "\r\n"
WriteRow(n) == DecimalDigits(n) \o <<13, 10>>

\* lines 38-39 (and 35-36): one row per height, in order
RECURSIVE WriteRows(_)
WriteRows(hs) ==
    IF hs = << >> THEN << >> ELSE WriteRow(Head(hs)) \o WriteRows(Tail(hs))

\* open(list_path) in text mode: "\r\n" and "\r" are read as "\n"
RECURSIVE Translate(_)
Translate(cs) ==
    IF cs = << >> THEN << >>
    ELSE IF Head(cs) = 13
         THEN <<10>> \o Translate(IF Len(cs) >= 2 /\ cs[2] = 10
                                  THEN SubSeq(cs, 3, Len(cs)) ELSE Tail(cs))
         ELSE <<Head(cs)>> \o Translate(Tail(cs))

\* the lines of a text; the last one needs no terminator
RECURSIVE Lines(_, _)
Lines(txt, cur) ==
    IF txt = << >> THEN (IF cur = << >> THEN << >> ELSE <<cur>>)
    ELSE IF Head(txt) = 10 THEN <<cur>> \o Lines(Tail(txt), << >>)
    ELSE Lines(Tail(txt), Append(cur, Head(txt)))

\* csv.reader on a line without quotes: l[0], the text before the first comma
RECURSIVE FirstField(_)
FirstField(line) ==
    IF line = << >> \/ Head(line) = 44 THEN << >>
    ELSE <<Head(line)>> \o FirstField(Tail(line))

IsDigits(f) == f # << >> /\ \A k \in 1..Len(f) : f[k] \in 48..57

\* int(f) of a field of decimal digits
RECURSIVE ParseInt(_, _)
ParseInt(ds, acc) ==
    IF ds = << >> THEN acc ELSE ParseInt(Tail(ds), 10 * acc + (Head(ds) - 48))

\* lines 27-28: the rows are appended one by one; a blank line is the row []
\* (l[0] raises IndexError), a first field that is no number raises ValueError
RECURSIVE LoadRows(_, _)
LoadRows(rows, sel) ==
    IF rows = << >> THEN [sel |-> sel, raised |-> "none"]
    ELSE LET l == Head(rows)
         IN  IF l = << >> THEN [sel |-> sel, raised |-> "IndexError"]
             ELSE IF ~IsDigits(FirstField(l)) THEN [sel |-> sel, raised |-> "ValueError"]
             ELSE LoadRows(Tail(rows), Append(sel, ParseInt(FirstField(l), 0)))

\* lines 24-28: the selection load_block_list leaves, and what it raised;
\* line 24 has emptied the selection before open fails on a missing file
LoadList(file) ==
    IF file = None THEN [sel |-> << >>, raised |-> "FileNotFoundError"]
    ELSE LoadRows(Lines(Translate(file[1]), << >>), << >>)

\* the list files that may lie at list_path when the wrapper is made: none,
\* an empty file, "0", "1 0", "1 1" and "3 7 19" one number per "\r\n" line,
\* "100 9 10" on "\n" lines without a last terminator, a file with a second
\* column ("3,x"), and one with a blank line after its first row
ListFiles ==
    { None,
      Some(<< >>),
      Some(<<48, 13, 10>>),
      Some(<<49, 13, 10, 48, 13, 10>>),
      Some(<<49, 13, 10, 49, 13, 10>>),
      Some(<<51, 13, 10, 55, 13, 10, 49, 57, 13, 10>>),
      Some(<<49, 48, 48, 10, 57, 10, 49, 48>>),
      Some(<<51, 44, 120, 13, 10>>),
      Some(<<50, 10, 10>>) }

--------------------------------------------------------------------------
(* scanner.py: filter_tx. A pass is [pc, flt, cur, i, out, tested, sel0,   *)
(* rest0, end, at]: where the generator stands, its predicate, the block   *)
(* it is in and the number of that block's transactions it has tested,     *)
(* what it has yielded, the transactions it has tested, the block          *)
(* selection and the rest of self.blocks when it started, how it ended,    *)
(* and the number of the call that made it. Its inner iterate_blocks()     *)
(* generator is the pass it.                                               *)

\* block.transactions: one or two transactions, named after the block
transactions(block) ==
    [k \in 1..(1 + (block.hash % 2)) |-> 10 * block.hash + (k - 1)]

\* the predicates on transactions: lambda x: True, and the second of a block
TxFltSet == {"all", "second"}

\* flt(tx)
TxFltHolds(flt, tx) == flt = "all" \/ tx % 10 = 1

\* an iterate_blocks that filters whatever the selection is
IterateStepFiltering(p, bs, sel) ==
    IF p.pc = "created"
    THEN FilterStep([p EXCEPT !.mode = "filter"], bs, Some(<< >>))
    ELSE FilterStep(p, bs, sel)

\* next() on an iterate_blocks generator p, lines 56-61
IterateStep(p, bs, sel) ==
    IF p.pc = "created"
    THEN IF ModeOf(sel) = "filter"
         THEN FilterStep([p EXCEPT !.mode = "filter"], bs, Some(<< >>))
         ELSE [blocks |-> bs, sel |-> sel,
               it |-> ReplayStep([p EXCEPT !.mode = "replay", !.todo = sel[1]])]
    ELSE IF p.mode = "filter" THEN FilterStep(p, bs, sel)
    ELSE [blocks |-> bs, sel |-> sel, it |-> ReplayStep(p)]

\* lines 95-99 from where the generator stands to its next yield or its end;
\* st is [t, p, bs, sel, seltx]: the pass, the inner pass, self.blocks,
\* self.selected_blocks and self.selected_tx
RECURSIVE TxRun(_)
TxRun(st) ==
    LET t    == st.t
        txs  == IF t.cur = << >> THEN << >> ELSE transactions(t.cur[1])
        M    == { k \in (t.i + 1)..Len(txs) : TxFltHolds(t.flt, txs[k]) }
    IN  IF M # {}
        THEN LET k == CHOOSE j \in M : \A j2 \in M : j <= j2
             IN  [st EXCEPT
                    !.t = [t EXCEPT !.pc = "running", !.i = k,
                                    !.tested = t.tested \o SubSeq(txs, t.i + 1, k),
                                    !.out = Append(t.out, <<t.cur[1], k - 1, txs[k]>>)],
                    !.seltx = Append(st.seltx, <<t.cur[1].height, k - 1>>)]
        ELSE LET r  == IterateStep(st.p, st.bs, st.sel)
                 t2 == [t EXCEPT !.tested = t.tested \o SubSeq(txs, t.i + 1, Len(txs))]
             IN  IF r.it.pc = "running"
                 THEN TxRun([st EXCEPT
                               !.t = [t2 EXCEPT !.cur = <<r.it.out[Len(r.it.out)]>>,
                                                !.i = 0],
                               !.p = r.it, !.bs = r.blocks, !.sel = r.sel])
                 ELSE [st EXCEPT
                         !.t = [t2 EXCEPT !.pc = "ended", !.end = r.it.end,
                                          !.cur = << >>, !.i = 0],
                         !.p = r.it, !.bs = r.blocks, !.sel = r.sel]

\* no generator is being pulled from
BetweenPasses == it.pc \in {"idle", "ended"} /\ txit.pc \in {"idle", "ended"}

\* filter_tx(flt) is called: a generator is made, none of its code runs
filter_tx ==
    /\ BetweenPasses
    /\ calls < MaxCalls
    /\ calls' = calls + 1
    /\ \E flt \in TxFltSet :
          txit' = [NoTxPass EXCEPT !.pc = "created", !.flt = flt, !.at = calls + 1]
    /\ UNCHANGED <<blocks, selected_blocks, it, prev_pass, cleared>>
    /\ UNCHANGED <<selected_tx, list_file, list_note>>
    /\ UNCHANGED <<scan_vars, data_vars, prune_vars, chain_vars, build_vars,
                   varint_vars>>

\* next() on the filter_tx generator, lines 94-99 (the first next() runs line
\* 94 and makes the inner generator of line 95)
filter_tx_next ==
    /\ txit.pc \in {"created", "running"}
    /\ LET first == txit.pc = "created"
           r == TxRun([t |-> IF first
                             THEN [txit EXCEPT !.sel0 = selected_blocks,
                                               !.rest0 = blocks]
                             ELSE txit,
                       p |-> IF first
                             THEN [NoPass EXCEPT !.pc = "created", !.gap = cleared]
                             ELSE it,
                       bs |-> blocks,
                       sel |-> selected_blocks,
                       seltx |-> IF first THEN << >> ELSE selected_tx[1]])
       IN  /\ txit' = r.t
           /\ it' = r.p
           /\ blocks' = r.bs
           /\ selected_blocks' = r.sel
           /\ selected_tx' = Some(r.seltx)
           /\ prev_pass' = IF first THEN it ELSE prev_pass
           /\ cleared' = IF first THEN FALSE ELSE cleared
    /\ UNCHANGED <<calls, list_file, list_note>>
    /\ UNCHANGED <<scan_vars, data_vars, prune_vars, chain_vars, build_vars,
                   varint_vars>>

\* the consumer stops pulling from the filter_tx generator after a yield
filter_tx_abandon ==
    /\ txit.pc = "running"
    /\ txit' = [txit EXCEPT !.pc = "ended", !.end = "abandoned"]
    /\ it' = [it EXCEPT !.pc = "ended", !.end = "abandoned"]
    /\ UNCHANGED <<blocks, selected_blocks, prev_pass, cleared, calls>>
    /\ UNCHANGED <<selected_tx, list_file, list_note>>
    /\ UNCHANGED <<scan_vars, data_vars, prune_vars, chain_vars, build_vars,
                   varint_vars>>

\* save_block_list(list_path, flt), lines 32-39: without a selection the whole
\* of filter_blocks(flt) runs and its heights are written, else the selection
save_block_list ==
    /\ BetweenPasses
    /\ calls < MaxCalls
    /\ calls' = calls + 1
    /\ \E flt \in FltSet :
         LET hs == IF selected_blocks = None
                   THEN [k \in 1..Len(SelectSeq(blocks, LAMBDA b : FltHolds(flt, b)))
                           |-> SelectSeq(blocks, LAMBDA b : FltHolds(flt, b))[k].height]
                   ELSE selected_blocks[1]
         IN  /\ list_file' = Some(WriteRows(hs))
             /\ list_note' = [NoNote EXCEPT !.written = Some(hs)]
             /\ IF selected_blocks = None
                THEN /\ selected_blocks' = Some(hs)
                     /\ blocks' = << >>
                     /\ it' = NoPass
                ELSE UNCHANGED <<selected_blocks, blocks, it>>
    /\ UNCHANGED <<prev_pass, cleared, selected_tx, txit>>
    /\ UNCHANGED <<scan_vars, data_vars, prune_vars, chain_vars, build_vars,
                   varint_vars>>

\* load_block_list(list_path), lines 24-28
load_block_list ==
    /\ BetweenPasses
    /\ calls < MaxCalls
    /\ calls' = calls + 1
    /\ LET r == LoadList(list_file)
       IN  /\ selected_blocks' = Some(r.sel)
           /\ list_note' = [list_note EXCEPT !.loaded = Some(r.sel),
                                             !.raised = r.raised,
                                             !.at = calls + 1]
    /\ it' = NoPass
    /\ cleared' = FALSE
    /\ UNCHANGED <<blocks, prev_pass, selected_tx, txit, list_file>>
    /\ UNCHANGED <<scan_vars, data_vars, prune_vars, chain_vars, build_vars,
                   varint_vars>>

\* the stores a wrapper that filters transactions is built on
TxStores == { q \in ScannerStores : q.group = <<"M">> /\ q.d = q.n } \cup {ForkStore}

\* lines 14-18, over a Blockchain whose index is built, with a list file
\* that may lie at list_path
InitScannerTx ==
    \E q \in TxStores, f \in ListFiles :
        /\ disk = StoreDisk(q.n, q.d, q.f, q.group, q.sloc)
        /\ blockIndexes = PrunedIndex(disk, StoreIndex(q.n, q.d, q.f, q.group, q.sloc))
        /\ blocks = get_ordered_blocks(disk, blockIndexes, 0, None)
        /\ selected_blocks = None
        /\ it = NoPass
        /\ prev_pass = NoPass
        /\ cleared = FALSE
        /\ calls = 0
        /\ selected_tx = None
        /\ txit = NoTxPass
        /\ list_file = f
        /\ list_note = NoNote
        /\ IdleScan /\ IdlePrune /\ IdleChain /\ IdleBuild /\ IdleVarint

NextScannerTx ==
    \/ iterate_blocks
    \/ iterate_blocks_next
    \/ iterate_blocks_abandon
    \/ clear_block_filter
    \/ filter_tx
    \/ filter_tx_next
    \/ filter_tx_abandon
    \/ save_block_list
    \/ load_block_list

SpecScannerTx == InitScannerTx /\ [][NextScannerTx]_vars

--------------------------------------------------------------------------
(* blockchain.py: Blockchain.__init__ and the head of _build_block_index,  *)
(* lines 82-88 and 157-169. The call is [pc, cache, attrs, self_index,     *)
(* local, raised]: where it stands, the cache argument, the attributes set *)
(* on self so far, self.blockIndexes, the local blockIndexes of            *)
(* _build_block_index (None while the name is unbound) and the exception   *)
(* the call ended with.                                                    *)

\* the block-index store iterates in key order, which is not height order:
\* here the entries of a store from the last key to the first
KeyOrder(idx) == Reversed(idx)

\* line 169, list.sort(key=height): stable insertion of e into a sorted list
RECURSIVE InsertByHeight(_, _)
InsertByHeight(s, e) ==
    IF s = << >> THEN <<e>>
    ELSE IF s[Len(s)].height <= e.height THEN Append(s, e)
    ELSE Append(InsertByHeight(SubSeq(s, 1, Len(s) - 1), e), s[Len(s)])

RECURSIVE SortByHeight(_)
SortByHeight(s) ==
    IF s = << >> THEN << >>
    ELSE InsertByHeight(SortByHeight(SubSeq(s, 1, Len(s) - 1)), s[Len(s)])

\* the cache argument and the file it names: no cache, a cache path without a
\* file, and a cache file pickled from an index of an earlier, shorter store
CacheSet(q) ==
    { [cache |-> None, file |-> None],
      [cache |-> Some("cache"), file |-> None],
      [cache |-> Some("cache"),
       file |-> Some(StoreIndex(Max(q.n - 1, 0), Min(q.d, Max(q.n - 1, 0)), 0,
                                <<"M">>, q.sloc))] }

\* Blockchain(path, cache) is called over a valid data directory
InitBuild ==
    \E q \in StoreParams : \E c \in CacheSet(q) :
        /\ store = KeyOrder(StoreIndex(q.n, q.d, q.f, q.group, q.sloc))
        /\ disk = StoreDisk(q.n, q.d, q.f, q.group, q.sloc)
        /\ blockIndexes = << >>
        /\ cache_file = c.file
        /\ ctor = [NoCtor EXCEPT !.pc = "called", !.cache = c.cache]
        /\ IdleScan /\ IdlePrune /\ IdleChain /\ IdleScanner /\ IdleTx /\ IdleVarint

\* lines 83-85: self.path, self.blockIndexes = None, self.cache
Blockchain_init ==
    /\ ctor.pc = "called"
    /\ ctor' = [ctor EXCEPT !.pc = "line160",
                            !.attrs = {"path", "blockIndexes", "cache"},
                            !.self_index = None]
    /\ UNCHANGED <<store, cache_file>>
    /\ UNCHANGED <<scan_vars, data_vars, prune_vars, chain_vars, scanner_vars, tx_vars,
                   varint_vars>>

\* line 160: self.cache and os.path.exists(self.cache)
CacheExists(c, file) == c # None /\ file # None

\* lines 160-163: the cache file exists and is unpickled into the local
build_load_cache ==
    /\ ctor.pc = "line160"
    /\ CacheExists(ctor.cache, cache_file)
    /\ ctor' = [ctor EXCEPT !.pc = "line166", !.local = cache_file]
    /\ UNCHANGED <<store, cache_file>>
    /\ UNCHANGED <<scan_vars, data_vars, prune_vars, chain_vars, scanner_vars, tx_vars,
                   varint_vars>>

\* line 160: no cache, or no file at its path; the local stays unbound
build_no_cache ==
    /\ ctor.pc = "line160"
    /\ ~CacheExists(ctor.cache, cache_file)
    /\ ctor' = [ctor EXCEPT !.pc = "line166"]
    /\ UNCHANGED <<store, cache_file>>
    /\ UNCHANGED <<scan_vars, data_vars, prune_vars, chain_vars, scanner_vars, tx_vars,
                   varint_vars>>

\* lines 166-168, and line 86 which lets the exception through: the store is
\* read through self.blockIndexDb, an attribute that line 87 sets only after
\* _build_block_index has returned (AttributeError); were it set, the list
\* would be bound to self.blockIndexes and line 168 would close db, a name
\* that is bound nowhere (NameError)
build_read_store ==
    /\ ctor.pc = "line166"
    /\ IF "blockIndexDb" \notin ctor.attrs
       THEN ctor' = [ctor EXCEPT !.pc = "ended", !.raised = "AttributeError"]
       ELSE ctor' = [ctor EXCEPT !.pc = "ended", !.raised = "NameError",
                                 !.self_index = Some(store)]
    /\ UNCHANGED <<store, cache_file>>
    /\ UNCHANGED <<scan_vars, data_vars, prune_vars, chain_vars, scanner_vars, tx_vars,
                   varint_vars>>

NextBuild ==
    \/ Blockchain_init
    \/ build_load_cache
    \/ build_no_cache
    \/ build_read_store

SpecBuild == InitBuild /\ [][NextBuild]_vars

\* C11: Blockchain(path) with no cache over a valid data directory completes
\* without error; afterwards self.blockIndexes is the height-sorted, pruned
\* index built from the block-index store and both store handles are set.
C11_ConstructorCompletes ==
    ctor.pc = "ended" /\ ctor.cache = None =>
        /\ ctor.raised = "none"
        /\ ctor.self_index = Some(PrunedIndex(disk, SortByHeight(store)))
        /\ {"blockIndexDb", "txIndexDb"} \subseteq ctor.attrs

\* what the code does instead: every construction ends at line 166 with an
\* AttributeError, self.blockIndexes still None and no store handle set
C11_ConstructorRaises ==
    ctor.pc = "ended" =>
        /\ ctor.raised = "AttributeError"
        /\ ctor.self_index = None
        /\ ctor.attrs = {"path", "blockIndexes", "cache"}

\* C16: when a cache file is configured and exists, the store is still read
\* and the index that is sorted, pruned and returned is the one built from
\* the store, in place of the list unpickled from the cache.
C16_StoreReplacesCache ==
    ctor.pc = "ended" /\ CacheExists(ctor.cache, cache_file) =>
        /\ ctor.raised = "none"
        /\ ctor.self_index = Some(PrunedIndex(disk, SortByHeight(store)))

--------------------------------------------------------------------------
(* utils.py: decode_varint, and blockchain.py: Blockchain.get_transaction. *)

\* the values below MaxVarint are all tried
MaxVarint == 300

\* a | b on non-negative ints
RECURSIVE BitOr(_, _)
BitOr(a, b) ==
    IF a = 0 THEN b
    ELSE IF b = 0 THEN a
    ELSE (IF a % 2 = 1 \/ b % 2 = 1 THEN 1 ELSE 0) + 2 * BitOr(a \div 2, b \div 2)

\* a decoder that moves on by a whole byte per group: shift += 8
RECURSIVE DecodeLoopBytewise(_, _, _, _, _)
DecodeLoopBytewise(bs, pos, length, shift, acc) ==
    IF pos > Len(bs) THEN [value |-> 0, length |-> 0, raised |-> "EOFError"]
    ELSE LET i  == bs[pos]
             r2 == BitOr(acc, (i % 128) * (2 ^ shift))
         IN  IF i < 128 THEN [value |-> r2, length |-> length + 1, raised |-> "none"]
             ELSE DecodeLoopBytewise(bs, pos + 1, length + 1, shift + 8, r2)

\* lines 48-57: the loop, with the stream at byte pos (1-based) of bs;
\* i & 0x7f is i % 128 and i & 0x80 is set when i >= 128
RECURSIVE DecodeLoop(_, _, _, _, _)
DecodeLoop(bs, pos, length, shift, acc) ==
    IF pos > Len(bs) THEN [value |-> 0, length |-> 0, raised |-> "EOFError"]
    ELSE LET i  == bs[pos]
             r2 == BitOr(acc, (i % 128) * (2 ^ shift))
         IN  IF i < 128 THEN [value |-> r2, length |-> length + 1, raised |-> "none"]
             ELSE DecodeLoop(bs, pos + 1, length + 1, shift + 7, r2)

\* decode_varint(varint): (result, length), or EOFError
decode_varint(bs) == DecodeLoop(bs, 1, 0, 0, 0)

\* txInfo[offset:]
From(bs, off) == PySlice(bs, off, Len(bs))

\* get_transaction, lines 145-153, on the value txInfo the transaction index
\* holds for the id: the file number and block offset given to get_block, and
\* what is handed to blk.get_transaction as txOffs, written <<v>> for the int
\* v and <<v, n>> for the pair (v, n)
get_transaction(txInfo) ==
    LET a == decode_varint(txInfo)
    IN  IF a.raised # "none" THEN [NoVarintCall EXCEPT !.raised = a.raised]
        ELSE LET b == decode_varint(From(txInfo, a.length))
             IN  IF b.raised # "none" THEN [NoVarintCall EXCEPT !.raised = b.raised]
                 ELSE LET c == decode_varint(From(txInfo, a.length + b.length))
                      IN  IF c.raised # "none"
                          THEN [NoVarintCall EXCEPT !.raised = c.raised]
                          ELSE [NoVarintCall EXCEPT !.fileNo = a.value,
                                                    !.blockOffs = b.value,
                                                    !.txOffs = <<c.value, c.length>>]

\* the base-128 bytes of a value: 7 bits per byte, lowest group first, the high
\* bit set on every byte but the last
RECURSIVE EncodeVarint(_)
EncodeVarint(v) ==
    IF v < 128 THEN <<v>> ELSE <<128 + (v % 128)>> \o EncodeVarint(v \div 128)

\* values at the ends of the 1- to 5-byte encodings
EdgeValues == {127, 128, 16383, 16384, 2097151, 2097152, 268435455, 268435456,
               2147483647}

VarintValues == (0..MaxVarint) \cup EdgeValues

\* the bytes that follow a varint
TrailSet == { << >>, <<0>>, <<255>>, <<128, 1>> }

\* the fields of a transaction index record
FieldValues == {0, 1, 127, 128, 300, 16384}

\* the inputs: one encoded value with bytes after it, whole or with its last
\* byte cut off, and records of four encoded values
VarintInputs ==
    { [bytes |-> EncodeVarint(v) \o t, vals |-> <<v>>, trail |-> t, cut |-> 0] :
         v \in VarintValues, t \in TrailSet }
    \cup
    { [bytes |-> SubSeq(EncodeVarint(v), 1, Len(EncodeVarint(v)) - 1),
       vals |-> <<v>>, trail |-> << >>, cut |-> 1] : v \in VarintValues }
    \cup
    { [bytes |-> EncodeVarint(q[1]) \o EncodeVarint(q[2]) \o EncodeVarint(q[3])
                 \o EncodeVarint(q[4]),
       vals |-> q,
       trail |-> EncodeVarint(q[2]) \o EncodeVarint(q[3]) \o EncodeVarint(q[4]),
       cut |-> 0] :
         q \in [1..4 -> FieldValues] }

InitVarint ==
    /\ varint_in \in VarintInputs
    /\ vcall = NoVarintCall
    /\ IdleScan /\ IdleData /\ IdlePrune /\ IdleChain /\ IdleScanner
    /\ IdleBuild /\ IdleTx

\* decode_varint(varint)
call_decode_varint ==
    /\ vcall.op = "none"
    /\ LET r == decode_varint(varint_in.bytes)
       IN  vcall' = [NoVarintCall EXCEPT !.op = "decode_varint", !.value = r.value,
                                         !.length = r.length, !.raised = r.raised]
    /\ UNCHANGED varint_in
    /\ UNCHANGED <<scan_vars, data_vars, prune_vars, chain_vars, scanner_vars,
                   build_vars, tx_vars>>

\* get_transaction(txid) with the record of txid in the transaction index
call_get_transaction ==
    /\ vcall.op = "none"
    /\ vcall' = [get_transaction(varint_in.bytes) EXCEPT !.op = "get_transaction"]
    /\ UNCHANGED varint_in
    /\ UNCHANGED <<scan_vars, data_vars, prune_vars, chain_vars, scanner_vars,
                   build_vars, tx_vars>>

NextVarint ==
    \/ call_decode_varint
    \/ call_get_transaction

SpecVarint == InitVarint /\ [][NextVarint]_vars

\* the number of binary digits of v
RECURSIVE Bits(_)
Bits(v) == IF v = 0 THEN 0 ELSE 1 + Bits(v \div 2)

\* C14: decode_varint on the base-128 encoding of V followed by any bytes
\* returns (V, n), n the number of bytes of the encoding, which is
\* max(1, ceil(bits(V)/7)); the bytes after the encoding are not read.
C14_DecodeInvertsEncode ==
    vcall.op = "decode_varint" /\ varint_in.cut = 0 =>
        LET V == varint_in.vals[1]
        IN  /\ vcall.raised = "none"
            /\ vcall.value = V
            /\ vcall.length = Len(EncodeVarint(V))
            /\ vcall.length = Max(1, (Bits(V) + 6) \div 7)
            /\ From(varint_in.bytes, vcall.length) = varint_in.trail

\* C14 witness: a three-byte encoding decoded with bytes after it
C14_Witness ==
    /\ vcall.op = "decode_varint"
    /\ varint_in.vals = <<16384>>
    /\ varint_in.trail = <<128, 1>>
    /\ vcall.value = 16384
    /\ vcall.length = 3

\* an encoding cut before its last byte ends in EOFError
C14_TruncatedRaises ==
    vcall.op = "decode_varint" /\ varint_in.cut = 1 => vcall.raised = "EOFError"

\* C15: get_transaction decodes four consecutive varints from the stored
\* value (file number, block offset, declared size, transaction offset),
\* fetches the block at (file number, block offset), and hands the integer
\* value of the fourth varint to the block's single-transaction decode.
C15_FourthVarintPassed ==
    vcall.op = "get_transaction" /\ Len(varint_in.vals) = 4 =>
        /\ vcall.raised = "none"
        /\ vcall.fileNo = varint_in.vals[1]
        /\ vcall.blockOffs = varint_in.vals[2]
        /\ vcall.txOffs = <<varint_in.vals[4]>>

\* what the code does instead: three varints are decoded, and the third is
\* handed on as the pair (value, bytes consumed)
C15_ThirdVarintPairPassed ==
    vcall.op = "get_transaction" /\ Len(varint_in.vals) = 4 =>
        /\ vcall.raised = "none"
        /\ vcall.fileNo = varint_in.vals[1]
        /\ vcall.blockOffs = varint_in.vals[2]
        /\ vcall.txOffs = <<varint_in.vals[3], Len(EncodeVarint(varint_in.vals[3]))>>

--------------------------------------------------------------------------
(* Claims about the pruning of _build_block_index.                         *)

Heights(idx) == { idx[k].height : k \in 1..Len(idx) }

AtHeight(idx, h) == { k \in 1..Len(idx) : idx[k].height = h }

AllOnDisk(idx) == \A k \in 1..Len(idx) : ~NotOnDisk(idx[k])

PrevOf(e) == StoredBlock(disk, e).prev

\* the six entries after position p form a chain of previous-block hashes
\* that starts from the entry at position j
ExtendedBySix(idx, j, p) ==
    /\ p + 6 <= Len(idx)
    /\ PrevOf(idx[p + 1]) = idx[j].hash
    /\ \A k \in 1..5 : PrevOf(idx[p + k + 1]) = idx[p + k].hash

NoDescendant(idx, j) == \A k \in 1..Len(idx) : PrevOf(idx[k]) # idx[j].hash

Without(idx, j) == SubSeq(idx, 1, j - 1) \o SubSeq(idx, j + 1, Len(idx))

\* the index has one duplicated height, held by the entries at p - 1 and p; the
\* one at keep is extended by six entries, the one at drop has no descendant
ResolvedFork(idx, p, keep, drop) ==
    /\ AllOnDisk(idx)
    /\ p \in 2..Len(idx)
    /\ {keep, drop} = {p - 1, p}
    /\ \A h \in Heights(idx) :
          AtHeight(idx, h) = IF h = idx[p].height THEN {p - 1, p}
                             ELSE { CHOOSE k \in AtHeight(idx, h) : TRUE }
    /\ ExtendedBySix(idx, keep, p)
    /\ NoDescendant(idx, drop)

\* C8: when the sorted index (all entries on disk) has exactly one duplicated
\* height, one of its two entries is extended by 6 consecutive entries chained
\* to it by previous-block hashes and the other has no descendant, then,
\* whichever of the two comes first, the pruning returns the index with the
\* extended entry kept and exactly the other one removed.
C8_ResolvedForkPruned ==
    prune_pc = "done" =>
        \A p \in 2..Len(sorted_index) : \A keep, drop \in {p - 1, p} :
            ResolvedFork(sorted_index, p, keep, drop) =>
                blockIndexes = Without(sorted_index, drop)

\* C8 witness: a pruned resolved fork in which the extended entry comes first
C8_Witness ==
    /\ prune_pc = "done"
    /\ \E p \in 2..Len(sorted_index) :
          /\ ResolvedFork(sorted_index, p, p - 1, p)
          /\ blockIndexes = Without(sorted_index, p)

\* the entry at position j of idx is confirmed: _index_confirmed finds a chain
\* of 6 hashes that starts at it among the entries from j on
Confirmed(idx, j) == Truthy(index_confirmed(disk, SubSeq(idx, j, Len(idx))))

\* C9: after pruning, every height at which some entry of the index is
\* confirmed has at most one entry in the returned index, however many entries
\* shared that height and in whatever order.
C9_OnePerConfirmedHeight ==
    prune_pc = "done" =>
        \A j \in 1..Len(sorted_index) :
            Confirmed(sorted_index, j) =>
                Cardinality(AtHeight(blockIndexes, sorted_index[j].height)) <= 1

\* the same for the heights that two entries share
C9_TwoCandidates ==
    prune_pc = "done" =>
        \A j \in 1..Len(sorted_index) :
            /\ Confirmed(sorted_index, j)
            /\ Cardinality(AtHeight(sorted_index, sorted_index[j].height)) <= 2
            => Cardinality(AtHeight(blockIndexes, sorted_index[j].height)) <= 1

StrictlyIncreasing(idx) ==
    \A k \in 1..(Len(idx) - 1) : idx[k].height < idx[k + 1].height

\* C10: on a sorted index whose heights are strictly increasing the pruning
\* loop never calls _index_confirmed and flags no orphan, and the index it
\* returns is the input sequence, same entries in the same order.
C10_NoForkUnchanged ==
    StrictlyIncreasing(sorted_index) =>
        /\ orphans = << >>
        /\ confirm_calls = 0
        /\ (prune_pc = "done" => blockIndexes = sorted_index)

\* C10 witness: a pruned index of at least 7 strictly increasing heights, one
\* of them not on disk
C10_Witness ==
    /\ prune_pc = "done"
    /\ StrictlyIncreasing(sorted_index)
    /\ Len(sorted_index) >= 7
    /\ ~AllOnDisk(sorted_index)
    /\ blockIndexes = sorted_index

--------------------------------------------------------------------------
(* Claims about the read operations of Blockchain.                         *)

IndexLen == Len(blockIndexes)

\* the block an index entry describes, as stored at its file and position
EntryBlock(e) ==
    LET b == CHOOSE x \in disk : x.file = e.file /\ x.pos = e.data_pos
    IN  [hash |-> b.hash, prev |-> b.prev, height |-> e.height]

\* the 1-based position of the first entry after position s that is not on
\* disk, or one past the end of the index
FirstMissingAfter(s) ==
    LET M == { k \in (s + 1)..IndexLen : NotOnDisk(blockIndexes[k]) }
    IN  IF M = {} THEN IndexLen + 1 ELSE CHOOSE k \in M : \A j \in M : k <= j

\* C3: get_ordered_blocks(start) with end omitted and 0 <= start <= L yields,
\* in ascending index order, the blocks of the index positions from start up
\* to, and not including, the first entry whose file or data_pos is -1, and
\* ends there without an error; when every entry from start on is on disk that
\* is every entry up to the end of the index.
C3_OrderedDefaultEnd ==
    /\ call.op = "get_ordered_blocks"
    /\ call.end = None
    /\ call.start <= IndexLen
    => LET stop == FirstMissingAfter(call.start)
       IN  /\ result.raised = "none"
           /\ Len(result.blocks) = stop - 1 - call.start
           /\ \A k \in 1..Len(result.blocks) :
                 result.blocks[k] = EntryBlock(blockIndexes[call.start + k])

\* C3 witness: an iteration from a start >= 1 that yields blocks and ends at an
\* entry that is not on disk although a later entry is
C3_Witness ==
    /\ call.op = "get_ordered_blocks"
    /\ call.end = None
    /\ call.start >= 1
    /\ call.start < IndexLen
    /\ result.blocks # << >>
    /\ FirstMissingAfter(call.start) < IndexLen
    /\ \E k \in (FirstMissingAfter(call.start) + 1)..IndexLen :
          ~NotOnDisk(blockIndexes[k])

\* C4: on an index whose entries are all on disk, get_ordered_blocks(start, end)
\* with 0 <= end < start yields the blocks of the forward request
\* get_ordered_blocks(end, start) in the opposite order.
C4_ReverseMirrorsForward ==
    /\ call.op = "get_ordered_blocks"
    /\ call.end # None
    /\ AllOnDisk(blockIndexes)
    => (call.end[1] < call.start =>
          result.blocks = Reversed(get_ordered_blocks(disk, blockIndexes,
                                                      call.end[1], Some(call.start))))

\* the same for a start within the index, start <= L
C4_ReverseWithinIndex ==
    /\ call.op = "get_ordered_blocks"
    /\ call.end # None
    /\ AllOnDisk(blockIndexes)
    /\ call.start <= IndexLen
    => (call.end[1] < call.start =>
          result.blocks = Reversed(get_ordered_blocks(disk, blockIndexes,
                                                      call.end[1], Some(call.start))))

\* C5: get_block_by_height(h) takes h as a position in the index, not as a
\* height to search for: when the entry at position h has file = -1 or
\* data_pos = -1 it raises the not-found error (ValueError) and returns no
\* block; otherwise it returns the block stored at that entry's file and
\* position, with that entry's height field as its height.
C5_HeightIsPosition ==
    /\ call.op = "get_block_by_height"
    /\ call.start >= 0
    /\ call.start < IndexLen
    => LET e == blockIndexes[call.start + 1]
       IN  IF e.file = -1 \/ e.data_pos = -1
           THEN result = [blocks |-> << >>, raised |-> "ValueError"]
           ELSE result = [blocks |-> <<EntryBlock(e)>>, raised |-> "none"]

\* C5 witness: a lookup that returns a block whose height is not the position
\* asked for
C5_Witness ==
    /\ call.op = "get_block_by_height"
    /\ call.start >= 0
    /\ call.start < IndexLen
    /\ result.raised = "none"
    /\ result.blocks[1].height # call.start
    /\ \E k \in 1..IndexLen : blockIndexes[k].height = call.start

--------------------------------------------------------------------------
(* Claims about Scanner.                                                   *)

\* every block of the height-ordered index: what get_ordered_blocks() yields
AllBlocks == get_ordered_blocks(disk, blockIndexes, 0, None)

\* the pass the consumer has pulled to its end (or to the exception that
\* ended it), after the pass before it
PassConsumed == it.pc = "ended" /\ it.end # "abandoned"

\* every entry of the index stands at the position its height names
DenseIndex == \A k \in 1..Len(blockIndexes) : blockIndexes[k].height = k - 1

\* C6: on a wrapper with no block selection, once iterate_blocks(p) has been
\* consumed to the end, a second iterate_blocks with nothing cleared in
\* between yields the same sequence of blocks as the first pass, and calls the
\* predicate not once.
C6_ReplayEqualsFirstPass ==
    /\ PassConsumed
    /\ ~it.gap
    /\ prev_pass.mode = "filter"
    /\ prev_pass.end = "exhausted"
    => /\ it.end = "exhausted"
       /\ it.out = prev_pass.out
       /\ it.calls = 0

\* the same on an index in which every entry's height is its position
C6_ReplayOnDenseIndex == DenseIndex => C6_ReplayEqualsFirstPass

\* C7: after a filtering pass and then clear_block_filter, the next
\* iterate_blocks(p), consumed to the end, evaluates p on every block of the
\* height-ordered index and yields exactly the blocks p holds of, as a first
\* pass with p on a fresh wrapper does.
C7_ClearForcesRefilter ==
    /\ PassConsumed
    /\ it.gap
    /\ prev_pass.mode = "filter"
    => /\ it.mode = "filter"
       /\ it.calls = Len(AllBlocks)
       /\ it.out = SelectSeq(AllBlocks, LAMBDA b : FltHolds(it.flt, b))

\* what the code does instead: the pass after the clear filters only what the
\* passes before it left of self.blocks
C7_RefilterOfTheRest ==
    /\ PassConsumed
    /\ it.gap
    /\ prev_pass.mode = "filter"
    /\ prev_pass.end = "exhausted"
    => /\ it.mode = "filter"
       /\ it.calls = 0
       /\ it.out = << >>

--------------------------------------------------------------------------
(* Claims about filter_tx and the block list file.                         *)

\* the transactions of a sequence of blocks, block after block
TxsOf(bs) == Flatten([k \in 1..Len(bs) |-> transactions(bs[k])])

\* the <<block, index, transaction>> triples of the transactions flt holds of
MatchesIn(b, flt) ==
    LET txs == transactions(b)
        all == [k \in 1..Len(txs) |-> <<b, k - 1, txs[k]>>]
    IN  SelectSeq(all, LAMBDA m : TxFltHolds(flt, m[3]))

MatchesOf(bs, flt) == Flatten([k \in 1..Len(bs) |-> MatchesIn(bs[k], flt)])

\* the blocks get_block_by_height returns for a list of heights, up to the
\* first lookup that raises
RECURSIVE LookupUntilRaise(_)
LookupUntilRaise(hs) ==
    IF hs = << >> THEN << >>
    ELSE LET r == get_block_by_height(disk, blockIndexes, Head(hs))
         IN  IF r.raised # "none" THEN << >>
             ELSE <<r.blocks[1]>> \o LookupUntilRaise(Tail(hs))

\* the filter_tx pass has been pulled to its end or to the exception that
\* ended it
TxPassConsumed == txit.pc = "ended" /\ txit.end # "abandoned"

HeightsOf(bs) == [k \in 1..Len(bs) |-> bs[k].height]

IteratedBy(t) ==
    IF t.sel0 = None THEN t.rest0 ELSE LookupUntilRaise(t.sel0[1])

C13_ListRoundTrip ==
    list_note.loaded # None /\ list_note.written # None =>
        /\ list_note.loaded = list_note.written
        /\ list_note.raised = "none"
        /\ calls = list_note.at => selected_blocks = list_note.written

\* C13 witness: the selection [3, 7, 19] saved and loaded again
C13_Witness ==
    /\ list_note.written = Some(<<3, 7, 19>>)
    /\ list_note.loaded = list_note.written
    /\ selected_blocks = list_note.written
    /\ calls = list_note.at

\* the same for the empty selection and for a selection with a repeat
C13_EmptyAndRepeat ==
    /\ list_note.written \in {Some(<< >>), Some(<<1, 1>>), Some(<<100, 9, 10>>)}
    /\ list_note.loaded = list_note.written
    /\ list_file # None
    /\ calls = list_note.at

\* C18: during a filter_blocks pass, whenever a block has been handed to the
\* consumer, selected_blocks is exactly the heights of the blocks yielded so
\* far in this pass, in yield order; a pass abandoned after k yields leaves
\* those k heights, and the iterate_blocks after it replays those k blocks.
C18_SelectionTracksYields ==
    /\ /\ it.mode = "filter"
       /\ \/ it.pc = "running"
          \/ it.pc = "ended" /\ it.end = "abandoned" /\ ~cleared
       => selected_blocks = Some(HeightsOf(it.out))
    /\ /\ PassConsumed
       /\ ~it.gap
       /\ prev_pass.mode = "filter"
       /\ prev_pass.end = "abandoned"
       => /\ it.mode = "replay"
          /\ it.calls = 0
          /\ it.out = prev_pass.out

\* the same on an index in which every entry's height is its position
C18_OnDenseIndex == DenseIndex => C18_SelectionTracksYields

\* C19: a filter_tx pass that starts with no block selection and is consumed
\* to its end leaves the block selection equal to the heights of every block
\* it iterated, in order, and the iterate_blocks that follows replays all of
\* those blocks without a call of its predicate; a filter_tx pass that starts
\* with a block selection leaves it as it was.
C19_FilterTxAndSelection ==
    /\ /\ TxPassConsumed
       /\ txit.end = "exhausted"
       /\ txit.sel0 = None
       /\ calls = txit.at
       => /\ it.out = txit.rest0
          /\ selected_blocks = Some(HeightsOf(it.out))
    /\ /\ txit.pc \in {"running", "ended"}
       /\ txit.sel0 # None
       /\ calls = txit.at
       => selected_blocks = txit.sel0
    /\ /\ txit.end = "exhausted"
       /\ txit.sel0 = None
       /\ calls = txit.at + 1
       /\ PassConsumed
       /\ ~it.gap
       /\ prev_pass.mode = "filter"
       /\ prev_pass.end = "exhausted"
       => /\ it.mode = "replay"
          /\ it.calls = 0
          /\ it.out = prev_pass.out

\* the same on an index in which every entry's height is its position
C19_OnDenseIndex == DenseIndex => C19_FilterTxAndSelection

====
